---- MODULE Spec2Model ----
(***************************************************************************)
(* Model of the report utilities of my_agent/agent.py: write_report,       *)
(* read_latest_report_summary, generate_test_suites_file and               *)
(* ensure_reports_dir, over a small filesystem.                            *)
(*                                                                         *)
(* Text is a sequence of characters, each character a one-element string   *)
(* token.  A JSON text is either unparseable or carries the value          *)
(* json.loads returns for it; JSON values are tagged records.              *)
(***************************************************************************)
EXTENDS Integers, Sequences, FiniteSets, TLC

\* ------------------------------------------------------------------ bounds
\* Number of write_report calls in a behaviour.
MaxCalls == 3

\* ------------------------------------------------------- program constants
\* Default of read_latest_report_summary's max_chars.
DefaultMaxChars == 2000

\* ------------------------------------------------------------- characters
NL == "\n"
EmDash == "<em-dash>"
CheckMark == "<check-mark>"
CrossMark == "<cross-mark>"
\* A lone surrogate code point: json.loads accepts the escape \ud800, the
\* utf-8 codec refuses to encode it.
Surrogate == "<U+D800>"

Encodable(s) == \A i \in 1..Len(s) : s[i] # Surrogate

RECURSIVE Concat(_)
Concat(ss) == IF ss = <<>> THEN <<>> ELSE Head(ss) \o Concat(Tail(ss))

\* Slice with the stop one too far.
SliceOffByOne(s, k) ==
  LET n == Len(s)
      stop == IF k < 0 THEN (IF n + k + 1 < 0 THEN 0 ELSE n + k + 1)
              ELSE (IF k + 1 > n THEN n ELSE k + 1)
  IN  SubSeq(s, 1, stop)

\* s[:k] of Python, for a sequence s and an integer k of either sign.
Slice(s, k) ==
  LET n == Len(s)
      stop == IF k < 0 THEN (IF n + k < 0 THEN 0 ELSE n + k)
              ELSE (IF k > n THEN n ELSE k)
  IN  SubSeq(s, 1, stop)

Digit == <<"0", "1", "2", "3", "4", "5", "6", "7", "8", "9">>
Digits2(n) == <<Digit[((n \div 10) % 10) + 1], Digit[(n % 10) + 1]>>

\* datetime.now().strftime("%Y-%m-%d %H:%M:%S"), the clock counting the
\* seconds of one fixed day.
Strftime(now) ==
  <<"2", "0", "2", "6", "-", "0", "1", "-", "0", "1", " ">>
    \o Digits2(now \div 3600) \o <<":">> \o Digits2((now \div 60) % 60)
    \o <<":">> \o Digits2(now % 60)

\* ------------------------------------------------------------ JSON values
JNull == [t |-> "null"]
JBool(b) == [t |-> "bool", b |-> b]
JNum(n) == [t |-> "num", n |-> n]
JStr(s) == [t |-> "str", s |-> s]
JList(items) == [t |-> "list", items |-> items]
\* f is a function from key names to JSON values.
JObj(f) == [t |-> "obj", f |-> f]
NoKeys == [k \in {} |-> JNull]

\* A JSON text: wf says whether json.loads can parse it, val is the value.
GoodText(v) == [wf |-> TRUE, val |-> v]
BadText == [wf |-> FALSE, val |-> JNull]

\* ------------------------------------------------------ Python semantics
\* x.get exists only on dicts; on anything else it is an AttributeError.
HasGet(v) == v.t = "obj"
\* d.get(key, default)
Get(d, key, default) == IF key \in DOMAIN d.f THEN d.f[key] ELSE default

\* for c in v: whether v can be iterated, and the items it yields.
Iterable(v) == v.t \in {"list", "obj", "str"}
\* A dict yields its keys, which are strings: one string item per key (the
\* loop body fails on the first of them, so the key's text is never used).
Items(v) ==
  IF v.t = "list" THEN v.items
  ELSE IF v.t = "str" THEN [i \in 1..Len(v.s) |-> JStr(<<v.s[i]>>)]
  ELSE [i \in 1..Cardinality(DOMAIN v.f) |-> JStr(<<"k">>)]

\* bool(v)
Truthy(v) ==
  CASE v.t = "null" -> FALSE
    [] v.t = "bool" -> v.b
    [] v.t = "num" -> v.n # 0
    [] v.t = "str" -> v.s # <<>>
    [] v.t = "list" -> v.items # <<>>
    [] OTHER -> DOMAIN v.f # {}

\* The text an f-string puts for {v}: str(v).
Str(v) ==
  CASE v.t = "str" -> v.s
    [] v.t = "null" -> <<"N", "o", "n", "e">>
    [] v.t = "bool" -> IF v.b THEN <<"T", "r", "u", "e">>
                       ELSE <<"F", "a", "l", "s", "e">>
    [] v.t = "num" -> <<Digit[(v.n % 10) + 1]>>  \* numbers 0..9 only
    [] OTHER -> <<"[", "]">>                     \* containers are never formatted here

\* ------------------------------------------------------------- filesystem
\* os.path.join(repo_root(), "test_reports") and a directory of the caller's.
ReportsDir == "test_reports"
CustomDir == "custom_dir"
\* The default report and a custom report_file.
DefaultReport == "test_reports/results.md"
CustomReport == "custom_dir/report.md"
Paths == {DefaultReport, CustomReport}
DirOf(p) == IF p = DefaultReport THEN ReportsDir ELSE CustomDir
\* The value of report_file when the caller omits it.
None == "None"

NoFile == [exists |-> FALSE, data |-> <<>>]
File(data) == [exists |-> TRUE, data |-> data]

\* test_suites.md: its lines, and its modification time.
StubContent == <<"# Generated Test Suites", "", "Please fill with test cases.">>
NoCatalog == [exists |-> FALSE, data |-> <<>>, mtime |-> 0]

\* The one I/O fault a call may meet, and where.
Faults == {"none", "mkdir", "catalog", "catalog_partial", "open", "write", "write_partial"}
\* Characters of a block that reach the file when a write fails part-way.
PartialCut == 3

VARIABLES
  dirs,     \* the directories that exist
  files,    \* Paths -> [exists, data]: the report files
  catalog,  \* test_suites.md: [exists, data, mtime]
  clock,    \* wall clock, seconds
  calls,    \* write_report calls made so far
  call,     \* the arguments of the last operation called, and the fault it met
  result,   \* what the last operation returned
  pre,      \* history: dirs, files and catalog as they were when it was called
  log,      \* history: Paths -> the blocks of the calls that returned ok=True
  ingested  \* history: the last write_report call, its path and whether it succeeded

vars == <<dirs, files, catalog, clock, calls, call, result, pre, log, ingested>>

\* --------------------------------------------------------- ensure_reports_dir
\* os.makedirs(path, exist_ok=True): [exc, dirs].
ensure_reports_dir(ds, fault) ==
  IF ReportsDir \in ds THEN [exc |-> "", dirs |-> ds]
  ELSE IF fault = "mkdir" THEN [exc |-> "PermissionError", dirs |-> ds]
  ELSE [exc |-> "", dirs |-> ds \cup {ReportsDir}]

\* -------------------------------------------------- generate_test_suites_file
\* generate_test_suites_file whose touch leaves the modification time alone.
TouchKeepsMtime(cat, now, fault) ==
  IF cat.exists
  THEN [catalog |-> cat, ret |-> IF fault \in {"catalog", "catalog_partial"}
                                 THEN "None" ELSE "test_suites.md"]
  ELSE IF fault = "catalog"
       THEN [catalog |-> cat, ret |-> "None"]
       ELSE IF fault = "catalog_partial"
       THEN [catalog |-> [exists |-> TRUE, data |-> <<>>, mtime |-> now],
             ret |-> "None"]
       ELSE [catalog |-> [exists |-> TRUE, data |-> StubContent, mtime |-> now],
             ret |-> "test_suites.md"]

\* [catalog, ret]: every exception is caught, printed and turned into None.
generate_test_suites_file(cat, now, fault) ==
  IF cat.exists
  THEN IF fault \in {"catalog", "catalog_partial"}
       THEN [catalog |-> cat, ret |-> "None"]
       ELSE [catalog |-> [cat EXCEPT !.mtime = now], ret |-> "test_suites.md"]
  ELSE IF fault = "catalog"
       THEN [catalog |-> cat, ret |-> "None"]
       ELSE IF fault = "catalog_partial"
       THEN [catalog |-> [exists |-> TRUE, data |-> <<>>, mtime |-> now],
             ret |-> "None"]
       ELSE [catalog |-> [exists |-> TRUE, data |-> StubContent, mtime |-> now],
             ret |-> "test_suites.md"]

\* ------------------------------------------------------------ write_report
\* json.loads that answers an empty object for a text it cannot parse.
JsonLoadsLenient(text) ==
  IF text.wf THEN [exc |-> "", val |-> text.val]
  ELSE [exc |-> "", val |-> JObj(NoKeys)]

\* json.loads(status_json): [exc, val].
JsonLoads(text) ==
  IF text.wf THEN [exc |-> "", val |-> text.val]
  ELSE [exc |-> "JSONDecodeError", val |-> JNull]

\* obj.get("status", "PASS")
StatusDefaultPass(obj) == Get(obj, "status", JStr(<<"P", "A", "S", "S">>))

Unknown == <<"U", "N", "K", "N", "O", "W", "N">>
\* obj.get("status", "UNKNOWN")
StatusOf(obj) == Get(obj, "status", JStr(Unknown))
\* obj.get("checks", [])
ChecksOf(obj) == Get(obj, "checks", JList(<<>>))
\* obj.get("artifacts", {})
ArtifactsOf(obj) == Get(obj, "artifacts", JObj(NoKeys))

\* A check line that leaves the details out.
CheckLineNoDetails(c) ==
  LET ok == Truthy(Get(c, "ok", JNull))
      nm == Get(c, "name", JStr(<<>>))
  IN  <<" ", " ", "-", " ", "[", IF ok THEN CheckMark ELSE CrossMark, "]", " ">>
        \o Str(nm) \o <<" ", EmDash, " ">> \o <<NL>>

\* One line of the checks list.
CheckLine(c) ==
  LET ok == Truthy(Get(c, "ok", JNull))
      nm == Get(c, "name", JStr(<<>>))
      det == Get(c, "details", JStr(<<>>))
  IN  <<" ", " ", "-", " ", "[", IF ok THEN CheckMark ELSE CrossMark, "]", " ">>
        \o Str(nm) \o <<" ", EmDash, " ">> \o Str(det) \o <<NL>>

HeadingLine(test_name, status) ==
  <<"#", "#", " ">> \o test_name \o <<" ", EmDash, " ">> \o Str(status) \o <<NL>>
WhenLine(now) == <<"-", " ", "W", "h", "e", "n", ":", " ">> \o Strftime(now) \o <<NL>>
UrlLine(url) == <<"-", " ", "U", "R", "L", ":", " ">> \o Str(url) \o <<NL>>
TitleLine(title) == <<"-", " ", "T", "i", "t", "l", "e", ":", " ">> \o Str(title) \o <<NL>>
ChecksHeader == <<"-", " ", "C", "h", "e", "c", "k", "s", ":", NL>>
Separator == <<NL, "-", "-", "-", NL, NL>>

\* Lines 148-170: parse the verdict and prepare the markdown block.
\* [exc, lines]: the exception raised, or the lines of the block.
PrepareBlock(test_name, text, now) ==
  LET parsed == JsonLoads(text)
      obj == parsed.val
      Raise(e) == [exc |-> e, lines |-> <<>>]
  IN  IF parsed.exc # "" THEN Raise(parsed.exc)
      ELSE IF ~HasGet(obj) THEN Raise("AttributeError")
      ELSE LET status == StatusOf(obj)
               checks == ChecksOf(obj)
               artifacts == ArtifactsOf(obj)
           IN  IF ~HasGet(artifacts) THEN Raise("AttributeError")
               ELSE IF ~Iterable(checks) THEN Raise("TypeError")
               ELSE IF \E i \in 1..Len(Items(checks)) : ~HasGet(Items(checks)[i])
                 THEN Raise("AttributeError")
               ELSE [exc |-> "",
                     lines |->
                       << HeadingLine(test_name, status),
                          WhenLine(now),
                          UrlLine(Get(artifacts, "url", JStr(<<>>))),
                          TitleLine(Get(artifacts, "title", JStr(<<>>))),
                          ChecksHeader >>
                       \o [i \in 1..Len(Items(checks)) |-> CheckLine(Items(checks)[i])]
                       \o << Separator >>]

\* open(report_file, "a", encoding="utf-8"): [exc, file].
OpenAppend(ds, f, path, fault) ==
  IF DirOf(path) \notin ds THEN [exc |-> "FileNotFoundError", file |-> f]
  ELSE IF fault = "open" THEN [exc |-> "PermissionError", file |-> f]
  ELSE [exc |-> "", file |-> File(f.data)]

\* The lines before the first one the codec cannot encode.
RECURSIVE EncodablePrefix(_)
EncodablePrefix(lines) ==
  IF lines = <<>> \/ ~Encodable(Head(lines)) THEN <<>>
  ELSE <<Head(lines)>> \o EncodablePrefix(Tail(lines))

\* f.writelines(lines) and the close of the with block: [exc, file].  Each line
\* is encoded as it is written; what was buffered before a failure is flushed
\* by the close.
WriteLines(f, lines, fault) ==
  LET good == EncodablePrefix(lines)
  IN  IF Len(good) < Len(lines)
      THEN [exc |-> "UnicodeEncodeError", file |-> File(f.data \o Concat(good))]
      ELSE IF fault = "write" THEN [exc |-> "OSError", file |-> f]
      ELSE IF fault = "write_partial"
      THEN [exc |-> "OSError",
            file |-> File(f.data \o SubSeq(Concat(lines), 1, PartialCut))]
      ELSE [exc |-> "", file |-> File(f.data \o Concat(lines))]

\* The try block with the verdict parsed before the directory and the catalog
\* are touched.
TryBodyParseFirst(test_name, text, report_file, fault, now) ==
  LET made == ensure_reports_dir(dirs, fault)
      gen == generate_test_suites_file(catalog, now, fault)
      path == IF report_file = None THEN DefaultReport ELSE report_file
      blk == PrepareBlock(test_name, text, now)
      opened == OpenAppend(made.dirs, files[path], path, fault)
      written == WriteLines(opened.file, blk.lines, fault)
      End(ds, cat, fs, e) ==
        [dirs |-> ds, catalog |-> cat, files |-> fs, exc |-> e, path |-> path,
         block |-> Concat(blk.lines)]
  IN  IF blk.exc # "" THEN End(dirs, catalog, files, blk.exc)
      ELSE IF made.exc # "" THEN End(dirs, catalog, files, made.exc)
      ELSE IF opened.exc # "" THEN End(made.dirs, gen.catalog, files, opened.exc)
      ELSE End(made.dirs, gen.catalog, [files EXCEPT ![path] = written.file],
               written.exc)

\* What the body of the try block does to the filesystem and how it ends:
\* [dirs, catalog, files, exc, path, block].
TryBody(test_name, text, report_file, fault, now) ==
  LET made == ensure_reports_dir(dirs, fault)
      gen == generate_test_suites_file(catalog, now, fault)
      path == IF report_file = None THEN DefaultReport ELSE report_file
      blk == PrepareBlock(test_name, text, now)
      opened == OpenAppend(made.dirs, files[path], path, fault)
      written == WriteLines(opened.file, blk.lines, fault)
      End(ds, cat, fs, e) ==
        [dirs |-> ds, catalog |-> cat, files |-> fs, exc |-> e, path |-> path,
         block |-> Concat(blk.lines)]
  IN  IF made.exc # "" THEN End(dirs, catalog, files, made.exc)
      ELSE IF blk.exc # "" THEN End(made.dirs, gen.catalog, files, blk.exc)
      ELSE IF opened.exc # "" THEN End(made.dirs, gen.catalog, files, opened.exc)
      ELSE End(made.dirs, gen.catalog, [files EXCEPT ![path] = written.file],
               written.exc)

\* A handler that catches the JSON error only: anything else escapes.
ReturnedCatchJsonOnly(exc, path) ==
  IF exc = ""
  THEN [op |-> "write_report", raised |-> FALSE, ok |-> TRUE, path |-> path,
        error |-> "", kind |-> "dict", text |-> <<>>]
  ELSE IF exc = "JSONDecodeError"
  THEN [op |-> "write_report", raised |-> FALSE, ok |-> FALSE, path |-> "",
        error |-> exc, kind |-> "dict", text |-> <<>>]
  ELSE [op |-> "write_report", raised |-> TRUE, ok |-> FALSE, path |-> "",
        error |-> exc, kind |-> "None", text |-> <<>>]

\* except Exception as e: return {"ok": False, "error": str(e)}, and the
\* return of line 175 otherwise.
Returned(exc, path) ==
  IF exc = ""
  THEN [op |-> "write_report", raised |-> FALSE, ok |-> TRUE, path |-> path,
        error |-> "", kind |-> "dict", text |-> <<>>]
  ELSE [op |-> "write_report", raised |-> FALSE, ok |-> FALSE, path |-> "",
        error |-> exc, kind |-> "dict", text |-> <<>>]

\* ------------------------------------------------ read_latest_report_summary
\* str(e) of the error a failed read raises.
ReadErrorText == <<"P", "e", "r", "m", "i", "s", "s", "i", "o", "n", " ",
                   "d", "e", "n", "i", "e", "d">>
FailedToRead == <<"F", "a", "i", "l", "e", "d", " ", "t", "o", " ", "r", "e", "a", "d", " ",
                  "r", "e", "p", "o", "r", "t", ":", " ">>

\* The value returned: None, the truncated content, or the failure message.
ReadSummary(f, max_chars, fault) ==
  IF ~f.exists
  THEN [op |-> "read_latest_report_summary", raised |-> FALSE, ok |-> FALSE,
        path |-> "", error |-> "", kind |-> "None", text |-> <<>>]
  ELSE IF fault = "read"
  THEN [op |-> "read_latest_report_summary", raised |-> FALSE, ok |-> FALSE,
        path |-> "", error |-> "PermissionError", kind |-> "str",
        text |-> FailedToRead \o ReadErrorText]
  ELSE [op |-> "read_latest_report_summary", raised |-> FALSE, ok |-> TRUE,
        path |-> "", error |-> "", kind |-> "str",
        text |-> Slice(f.data, max_chars)]

\* ------------------------------------------------------------------ inputs
T == <<"T", "1">>
U == <<"U", "2">>
S(c) == JStr(<<c, "1">>)
S2(c) == JStr(<<c, "2">>)
Pass == JStr(<<"P", "A", "S", "S">>)
Fail == JStr(<<"F", "A", "I", "L">>)
Skip == JStr(<<"S", "K", "I", "P">>)

\* The verdict of the docstring: status, one check, both artifacts.
FullVerdict ==
  GoodText(JObj([status |-> Pass,
                 checks |-> JList(<<JObj([name |-> S("c"), ok |-> JBool(TRUE),
                                          details |-> S("d")])>>),
                 artifacts |-> JObj([url |-> S("u"), title |-> S("t")])]))
\* Two checks, the second without ok and details; an artifact key nobody reads.
TwoChecks ==
  GoodText(JObj([status |-> Fail,
                 checks |-> JList(<<JObj([name |-> S("c"), ok |-> JBool(FALSE),
                                          details |-> S("d")]),
                                    JObj([name |-> S2("c"), extra |-> JNum(1)])>>),
                 artifacts |-> JObj([title |-> S("t"), extra |-> JNull])]))
\* A check whose details hold a lone surrogate.
SurrogateCheck ==
  GoodText(JObj([checks |-> JList(<<JObj([name |-> S("c"), ok |-> JNum(1)]),
                                    JObj([name |-> S2("c"), details |-> JStr(<<Surrogate>>)])>>)]))
EmptyObject == GoodText(JObj(NoKeys))
UnknownStatus == GoodText(JObj([status |-> Skip, checks |-> JObj(NoKeys)]))

\* Texts json.loads parses whose shape is not the documented one.
OddShapes ==
  { GoodText(JNull),
    GoodText(JObj([checks |-> JNull])),
    GoodText(JObj([checks |-> JList(<<JNum(1)>>)])),
    GoodText(JObj([artifacts |-> JNull])) }

Verdicts ==
  {BadText, EmptyObject, FullVerdict, TwoChecks, SurrogateCheck, UnknownStatus}
    \cup OddShapes

\* The calls of write_report a behaviour draws from:
\* <<test_name, status_json, report_file, fault>>.
Scenarios ==
  ({T} \X Verdicts \X {None} \X {"none"})
    \cup ({U} \X {BadText, EmptyObject, FullVerdict} \X {CustomReport} \X {"none"})
    \cup ({T} \X {BadText} \X {None} \X {"mkdir", "catalog"})
    \cup ({U} \X {FullVerdict} \X {None} \X (Faults \ {"none"}))

\* max_chars and the fault of a read.
ReadScenarios ==
  ({-1, 5, DefaultMaxChars} \X {"none"}) \cup {<<DefaultMaxChars, "read">>}

\* ------------------------------------------------------------------- state
NoCall == [op |-> "none", test_name |-> <<>>, text |-> BadText, report_file |-> None,
           fault |-> "none", max_chars |-> 0]
NoResult == [op |-> "none", raised |-> FALSE, ok |-> FALSE, path |-> "", error |-> "",
             kind |-> "None", text |-> <<>>]
Snapshot == [dirs |-> dirs, files |-> files, catalog |-> catalog]

Init ==
  /\ dirs \in {{}, {CustomDir}}
  /\ files = [p \in Paths |-> NoFile]
  /\ catalog = NoCatalog
  /\ clock = 0
  /\ calls = 0
  /\ call = NoCall
  /\ result = NoResult
  /\ pre = [dirs |-> dirs, files |-> files, catalog |-> catalog]
  /\ log = [p \in Paths |-> <<>>]
  /\ ingested = [test_name |-> <<>>, text |-> BadText, path |-> DefaultReport, ok |-> FALSE]

\* A fault is drawn only where the call can meet it.
CanMeet(fault) ==
  /\ fault = "mkdir" => ReportsDir \notin dirs
  /\ fault = "catalog_partial" => ~catalog.exists

\* One call of write_report, made one second after the previous one.
write_report(test_name, status_json, report_file, fault) ==
  /\ calls < MaxCalls
  /\ CanMeet(fault)
  /\ clock' = clock + 1
  /\ \E body \in {TryBody(test_name, status_json, report_file, fault, clock + 1)} :
       /\ dirs' = body.dirs
       /\ catalog' = body.catalog
       /\ files' = body.files
       /\ result' = Returned(body.exc, body.path)
       /\ log' = IF body.exc = ""
                 THEN [log EXCEPT ![body.path] = Append(@, body.block)]
                 ELSE log
       /\ ingested' = [test_name |-> test_name, text |-> status_json, path |-> body.path,
                       ok |-> body.exc = ""]
  /\ calls' = calls + 1
  /\ call' = [op |-> "write_report", test_name |-> test_name, text |-> status_json,
              report_file |-> report_file, fault |-> fault, max_chars |-> 0]
  /\ pre' = Snapshot

read_latest_report_summary(max_chars, fault) ==
  /\ result' = ReadSummary(files[DefaultReport], max_chars, fault)
  /\ call' = [NoCall EXCEPT !.op = "read_latest_report_summary",
                            !.fault = fault, !.max_chars = max_chars]
  /\ pre' = Snapshot
  /\ UNCHANGED <<dirs, files, catalog, clock, calls, log, ingested>>

Next ==
  \/ \E sc \in Scenarios : write_report(sc[1], sc[2], sc[3], sc[4])
  \/ \E rs \in ReadScenarios : read_latest_report_summary(rs[1], rs[2])

Spec == Init /\ [][Next]_vars

\* ------------------------------------------------------------ vocabulary
IsWrite == call.op = "write_report"
IsRead == call.op = "read_latest_report_summary"
\* The report file a write_report call addresses.
PathOf(c) == IF c.report_file = None THEN DefaultReport ELSE c.report_file
IsPrefix(a, b) == Len(a) <= Len(b) /\ SubSeq(b, 1, Len(a)) = a
IsSuffix(a, b) == Len(a) <= Len(b) /\ SubSeq(b, Len(b) - Len(a) + 1, Len(b)) = a
\* The errors of the filesystem and of the codec.
IOErrors == {"PermissionError", "FileNotFoundError", "OSError", "UnicodeEncodeError"}

\* The complete lines of d that start with the heading mark.
LineStarts(d) == {i \in 1..Len(d) : i = 1 \/ d[i - 1] = NL}
LineEnds(d, i) == {j \in i..Len(d) : d[j] = NL}
LineEnd(d, i) == CHOOSE j \in LineEnds(d, i) : \A k \in LineEnds(d, i) : j <= k
HeadingStarts(d) ==
  {i \in LineStarts(d) : /\ LineEnds(d, i) # {}
                         /\ IsPrefix(<<"#", "#", " ">>, SubSeq(d, i, Len(d)))}
Headings(d) == {SubSeq(d, i, LineEnd(d, i)) : i \in HeadingStarts(d)}
ShowsStatus(h, st) == IsSuffix(<<" ", EmDash, " ">> \o st \o <<NL>>, h)

\* The first place at or after from where n occurs in h, 0 when there is none.
Occurs(h, n, i) == i + Len(n) - 1 <= Len(h) /\ SubSeq(h, i, i + Len(n) - 1) = n
Places(h, n, from) == {i \in from..(Len(h) + 1) : Occurs(h, n, i)}
FirstPlace(h, n, from) ==
  IF Places(h, n, from) = {} THEN 0
  ELSE CHOOSE i \in Places(h, n, from) : \A k \in Places(h, n, from) : i <= k
\* h contains the texts ns one after the other, in this order.
RECURSIVE InOrder(_, _, _)
InOrder(h, ns, from) ==
  IF ns = <<>> THEN TRUE
  ELSE LET i == FirstPlace(h, Head(ns), from)
       IN  i # 0 /\ InOrder(h, Tail(ns), i + Len(Head(ns)))

\* What a verdict object says: its status as text, its checks' names and details.
GivenStatus(obj) == IF "status" \in DOMAIN obj.f THEN Str(obj.f.status) ELSE Unknown
Field(c, k) == IF k \in DOMAIN c.f THEN Str(c.f[k]) ELSE <<>>
RECURSIVE CheckTexts(_)
CheckTexts(cs) ==
  IF cs = <<>> THEN <<>>
  ELSE <<Field(Head(cs), "name"), Field(Head(cs), "details")>> \o CheckTexts(Tail(cs))
GivenChecks(obj) ==
  IF "checks" \in DOMAIN obj.f /\ obj.f.checks.t = "list" THEN obj.f.checks.items
  ELSE <<>>

\* ------------------------------------------------------------------ claims

\* C1 (as claimed): every store holds exactly the concatenation of the blocks
\* of the calls that returned ok=True, in call order, and no call alters what
\* an earlier call wrote.
C1_AppendOnlyLaw ==
  \A p \in Paths :
    /\ files[p].data = Concat(log[p])
    /\ IsPrefix(pre.files[p].data, files[p].data)

\* C2: a write_report whose verdict text is not parseable JSON returns
\* ok=False with an error, and the store file it addresses is as it was:
\* absent if it was absent, the same content if it existed.
C2_MalformedLeavesStore ==
  (IsWrite /\ ~call.text.wf) =>
    /\ ~result.ok
    /\ result.error # ""
    /\ files[PathOf(call)] = pre.files[PathOf(call)]
C2_Witness ==
  /\ IsWrite /\ ~call.text.wf /\ ~result.ok
  /\ pre.files[PathOf(call)].exists
  /\ pre.files[PathOf(call)].data # <<>>

\* C3 (as claimed): a write_report whose verdict text is valid JSON never
\* fails because of the shape of the data: it returns ok=True unless the
\* filesystem or the codec failed.
C3_LenientParsing ==
  (IsWrite /\ call.text.wf) => (result.ok \/ result.error \in IOErrors)

C5_NoFailureEscapes ==
  IsWrite =>
    /\ ~result.raised
    /\ result.kind = "dict"
    /\ ~result.ok => result.error # ""
    /\ result.ok =>
         /\ result.path = PathOf(call)
         /\ files[result.path].exists
         /\ IsPrefix(pre.files[result.path].data \o <<"#", "#", " ">>,
                     files[result.path].data)
         /\ IsSuffix(Separator, files[result.path].data)
C5_Witness ==
  /\ IsWrite /\ call.fault = "write_partial"
  /\ ~result.ok /\ result.error = "OSError"
  /\ files[PathOf(call)] # pre.files[PathOf(call)]

C7_TruncatedRead ==
  IsRead =>
    IF ~files[DefaultReport].exists THEN result.kind = "None"
    ELSE /\ result.kind = "str"
         /\ IsPrefix(result.text, files[DefaultReport].data)
         /\ Len(result.text) =
              (IF call.max_chars < Len(files[DefaultReport].data)
               THEN (IF call.max_chars < 0 THEN 0 ELSE call.max_chars)
               ELSE Len(files[DefaultReport].data))
\* C7 (amended): a read returns None when there is no store file; when the
\* file cannot be read it returns the message "Failed to read report: <error>";
\* otherwise it returns a prefix of the store: for k >= 0 its first k
\* characters (all of it when shorter), for k < 0 all but its last -k characters.
C7_TruncatedReadOrMessage ==
  IsRead =>
    IF ~files[DefaultReport].exists THEN result.kind = "None"
    ELSE IF call.fault = "read"
    THEN result.kind = "str" /\ IsPrefix(FailedToRead, result.text)
    ELSE /\ result.kind = "str"
         /\ IsPrefix(result.text, files[DefaultReport].data)
         /\ Len(result.text) =
              (IF call.max_chars >= 0
               THEN (IF call.max_chars < Len(files[DefaultReport].data)
                     THEN call.max_chars ELSE Len(files[DefaultReport].data))
               ELSE (IF Len(files[DefaultReport].data) + call.max_chars < 0
                     THEN 0 ELSE Len(files[DefaultReport].data) + call.max_chars))
C7_Witness ==
  /\ IsRead /\ call.fault = "none" /\ call.max_chars = 5
  /\ Len(files[DefaultReport].data) > 5
  /\ Len(result.text) = 5

\* What a read that follows a successful ingestion must contain.
ReadShowsIngested ==
  /\ result.kind = "str"
  /\ InOrder(result.text,
             <<ingested.test_name, GivenStatus(ingested.text.val)>>
               \o CheckTexts(GivenChecks(ingested.text.val)), 1)
C9_DirectoryEnsured ==
  (/\ IsWrite /\ call.fault = "none"
   /\ call.text \in {EmptyObject, FullVerdict, TwoChecks, UnknownStatus}) =>
    /\ DirOf(PathOf(call)) \in dirs
    /\ result.ok
    /\ files[PathOf(call)].exists

\* C10 (as claimed): a write_report whose verdict text cannot be parsed
\* leaves the whole filesystem as it was.
C10_ParseFirst ==
  (IsWrite /\ ~call.text.wf) =>
    /\ ~result.ok
    /\ dirs = pre.dirs /\ catalog = pre.catalog /\ files = pre.files
\* C10 (amended): the directory and the catalog come before the parse.  A
\* write_report whose verdict text cannot be parsed returns ok=False with no
\* report file touched, but (unless creating the directory failed, which ends
\* the call at once) the reports directory exists afterwards and the catalog
\* step has run: the catalog is created or its modification time refreshed
\* unless that step failed.
C10_EffectsBeforeParse ==
  (IsWrite /\ ~call.text.wf) =>
    /\ ~result.ok
    /\ files = pre.files
    /\ IF call.fault = "mkdir"
       THEN dirs = pre.dirs /\ catalog = pre.catalog
       ELSE /\ dirs = pre.dirs \cup {ReportsDir}
            /\ result.error = "JSONDecodeError"
            /\ IF call.fault = "catalog" THEN catalog = pre.catalog
               ELSE catalog.exists /\ catalog.mtime = clock
C10_Witness ==
  /\ IsWrite /\ ~call.text.wf /\ ~result.ok
  /\ ReportsDir \notin pre.dirs /\ ReportsDir \in dirs
  /\ ~pre.catalog.exists /\ catalog.exists

====
